---- MODULE Spec2Model ----
(***************************************************************************)
(* Hotel management system: rooms, reservations, the Hotel registry and    *)
(* the menu loop of main() that drives it.                                 *)
(*                                                                         *)
(* Text dates "DD/MM/YYYY" are kept as the triple <<DD, MM, YYYY>> that     *)
(* sscanf("%d/%d/%d") reads from them.  Rates are whole dollars, bills are *)
(* in cents (the two decimals the program prints).                         *)
(***************************************************************************)
EXTENDS Integers, Sequences, FiniteSets, TLC

\* ---- bounds and input sets -------------------------------------------------

\* reservations are created only while idCounter < MaxId
MaxId == 2

\* The values typed at the prompts of one session: room numbers, the room
\* numbers typed at the delete prompt, guest counts, reservation ids, check-in
\* and check-out dates, rates, room type choices, billing strategy choices,
\* update options and menu choices.
Session(roomNumbers, deleteNumbers, guestCounts, checkInDates, checkOutDates, rates, typeChoices, billingChoices) ==
    [roomNumbers |-> roomNumbers, deleteNumbers |-> deleteNumbers,
     guestCounts |-> guestCounts,
     reservationIds |-> 1..MaxId,
     checkInDates |-> checkInDates, checkOutDates |-> checkOutDates,
     rates |-> rates, typeChoices |-> typeChoices,
     billingChoices |-> billingChoices,
     updateOptions |-> 1..5, menuChoices |-> {1, 2, 3, 7, 8},
     names |-> {"Ana"}, contacts |-> {"0917"}]

\* a session that books, moves and cancels on the two Double rooms 201 and 202,
\* and deletes room 201 and adds it again as a Single room
Booking ==
    Session({201, 202}, {201}, 1..3, {<<1, 1, 2024>>}, {<<5, 1, 2024>>}, {100}, {1}, {1, 4})

\* a session on room 201 that types what no prompt refuses: 0 guests, and a
\* check-out date that is the check-in date
Unvalidated ==
    Session({201}, {201}, {0, 1, 3}, {<<1, 1, 2024>>, <<5, 1, 2024>>}, {<<5, 1, 2024>>}, {100}, {2}, {1, 4})

\* dates typed for the reservation that is viewed: first and last days of
\* months, 29 and 31 also where the month is shorter, two years
NightDates == {<<d, m, y>> : d \in {1, 28, 29, 31}, m \in {1, 2, 3, 12}, y \in {2024, 2025}}

\* rooms the viewed reservation is booked on: 201 is Regular, 203 Premium, 402 Corporate
ViewRooms == {201, 203, 402}

\* a session that views reservations
Viewing ==
    Session(ViewRooms, {}, {1}, NightDates, NightDates, {100}, {1}, {1})

\* a session that prices room 201 under the three strategies at two rates,
\* for stays counted as 2, 3, 30 and 31 nights
Billing ==
    Session({201}, {201}, {1}, {<<30, 1, 2024>>, <<31, 1, 2024>>}, {<<2, 2, 2024>>, <<1, 3, 2024>>}, {100, 75}, {2}, {1, 2, 3})

\* a session on room 201 whose dates make viewReservationDetails throw:
\* 29/02 to 01/03 counts 0 nights, 05/01 to 05/01 and 29/02 to 05/01 are
\* invalid ranges; 05/01 to 01/03 counts 55 nights
Faulty ==
    Session({201}, {201}, {1}, {<<29, 2, 2024>>, <<5, 1, 2024>>}, {<<1, 3, 2024>>, <<5, 1, 2024>>}, {100}, {2}, {1, 4})

\* a session that books a 3-night stay on room 201 (Regular, 100) or 203
\* (Premium, 110), moves it between them, and types rate 75 and strategy
\* Corporate at the update prompts; a room added again is a Single room
Repricing ==
    Session({201, 203}, {201}, {1}, {<<30, 1, 2024>>}, {<<2, 2, 2024>>}, {75}, {1}, {3})

VARIABLES rooms, reservations, idCounter, menu, last

vars == <<rooms, reservations, idCounter, menu, last>>

\* ---- messages printed ---------------------------------------------------------

RoomNotFound == "Room not found."
\* "Error: Room N can only accommodate M guests."
CapacityExceeded == "Error: Room can only accommodate fewer guests."
RoomUnavailable == "Room not available for reservation."
ReservationCreated == "Reservation created successfully!"
ReservationCancelled == "Reservation cancelled successfully!"
ReservationNotFound == "Reservation not found."
RoomChanged == "Room changed successfully."
GuestsUpdated == "Number of guests updated successfully."
\* what the menu loop prints for the exceptions it catches
InvalidDateRangeError == "Error: Invalid date range."
InvalidArgumentError == "Error: Number of nights must be positive."
\* "Total Bill: $" followed by the amount
TotalBill == "Total Bill"
RoomDeleted == "Room deleted successfully!"
RoomAdded == "Room added successfully!"

\* ---- Room --------------------------------------------------------------------

\* Room::RoomType, by enumerator value
SINGLE == 0
DOUBLE == 1
DELUXE == 2
SUITE == 3

Room(number, roomType, rate, strategy, guests) ==
    [roomNumber |-> number, type |-> roomType, baseRate |-> rate,
     isAvailable |-> TRUE, billingStrategy |-> strategy, maxGuests |-> guests]

setAvailability(room, available) == [room EXCEPT !.isAvailable = available]

setBaseRate(room, newRate) == [room EXCEPT !.baseRate = newRate]

setBillingStrategy(room, strategy) == [room EXCEPT !.billingStrategy = strategy]

\* strategies where Premium adds no surcharge
StrategyBill_PremiumWithoutSurcharge(strategy, baseRate, nights) ==
    CASE strategy = "Regular"   -> baseRate * nights * 100
      [] strategy = "Premium"   -> baseRate * nights * 100
      [] strategy = "Corporate" -> baseRate * nights * 85

\* BillingStrategy::calculateBill of the three strategies, in cents
StrategyBill(strategy, baseRate, nights) ==
    CASE strategy = "Regular"   -> baseRate * nights * 100
      [] strategy = "Premium"   -> baseRate * nights * 110
      [] strategy = "Corporate" -> baseRate * nights * 85

\* calculateBill that throws only for nights < 0
calculateBill_AcceptsZeroNights(room, nights) ==
    IF nights < 0
    THEN [thrown |-> TRUE, amount |-> 0]
    ELSE [thrown |-> FALSE,
          amount |-> StrategyBill(room.billingStrategy, room.baseRate, nights)]

\* Room::calculateBill: throws invalid_argument for nights <= 0
calculateBill(room, nights) ==
    IF nights <= 0
    THEN [thrown |-> TRUE, amount |-> 0]
    ELSE [thrown |-> FALSE,
          amount |-> StrategyBill(room.billingStrategy, room.baseRate, nights)]

\* ---- Reservation -------------------------------------------------------------

\* the constructor takes the next id from the static counter (++idCounter)
NewReservationId(counter) == counter + 1

Reservation(id, name, contact, roomNum, checkIn, checkOut, guests) ==
    [reservationID |-> id, guestName |-> name, contactInfo |-> contact,
     roomNumber |-> roomNum, checkInDate |-> checkIn,
     checkOutDate |-> checkOut, numberOfGuests |-> guests]

updateGuests(rv, guests) == [rv EXCEPT !.numberOfGuests = guests]

updateDates(rv, checkIn, checkOut) ==
    [rv EXCEPT !.checkInDate = checkIn, !.checkOutDate = checkOut]

updateRoomNumber(rv, newRoomNumber) == [rv EXCEPT !.roomNumber = newRoomNumber]

\* ---- vectors -----------------------------------------------------------------

\* index of the first room with this number, 0 when the loop finds none
RoomIndex(rms, number) ==
    IF \E i \in 1..Len(rms) : rms[i].roomNumber = number
    THEN CHOOSE i \in 1..Len(rms) :
            /\ rms[i].roomNumber = number
            /\ \A j \in 1..(i - 1) : rms[j].roomNumber # number
    ELSE 0

\* index of the first reservation with this id, 0 when the loop finds none
ReservationIndex(rsv, id) ==
    IF \E i \in 1..Len(rsv) : rsv[i].reservationID = id
    THEN CHOOSE i \in 1..Len(rsv) :
            /\ rsv[i].reservationID = id
            /\ \A j \in 1..(i - 1) : rsv[j].reservationID # id
    ELSE 0

\* vector::erase(it)
EraseAt(s, i) == SubSeq(s, 1, i - 1) \o SubSeq(s, i + 1, Len(s))

\* ---- Hotel -------------------------------------------------------------------

\* a Hotel value (with Reservation::idCounter), the message a call prints, the
\* total bill it prints and the local variable nights of viewReservationDetails
Outcome(rms, rsv, counter, msg, amount) ==
    [rooms |-> rms, reservations |-> rsv, idCounter |-> counter,
     out |-> msg, bill |-> amount, nights |-> 0]

addRoom(rms, number, roomType, rate, strategy, guests) ==
    Append(rms, Room(number, roomType, rate, strategy, guests))

\* the ten addRoom calls main() makes before the menu loop
InitialRooms ==
    LET r1  == addRoom(<< >>, 101, SINGLE, 75, "Regular", 1)
        r2  == addRoom(r1, 102, SINGLE, 75, "Regular", 1)
        r3  == addRoom(r2, 103, SINGLE, 80, "Premium", 1)
        r4  == addRoom(r3, 201, DOUBLE, 100, "Regular", 2)
        r5  == addRoom(r4, 202, DOUBLE, 100, "Regular", 2)
        r6  == addRoom(r5, 203, DOUBLE, 110, "Premium", 2)
        r7  == addRoom(r6, 301, DELUXE, 150, "Premium", 4)
        r8  == addRoom(r7, 302, DELUXE, 150, "Premium", 4)
        r9  == addRoom(r8, 401, SUITE, 250, "Premium", 6)
    IN  addRoom(r9, 402, SUITE, 225, "Corporate", 6)

\* deleteRoom that erases the last room when no room has the number
deleteRoom_ErasesLastWhenMissing(rms, rsv, counter, roomNumber) ==
    LET i == RoomIndex(rms, roomNumber) IN
    IF i # 0
    THEN Outcome(EraseAt(rms, i), rsv, counter, RoomDeleted, 0)
    ELSE Outcome(EraseAt(rms, Len(rms)), rsv, counter, RoomDeleted, 0)

deleteRoom(rms, rsv, counter, roomNumber) ==
    LET i == RoomIndex(rms, roomNumber) IN
    IF i # 0
    THEN Outcome(EraseAt(rms, i), rsv, counter, RoomDeleted, 0)
    ELSE Outcome(rms, rsv, counter, RoomNotFound, 0)

updateRoomRate(rms, rsv, counter, roomNumber, newRate) ==
    LET i == RoomIndex(rms, roomNumber) IN
    IF i # 0
    THEN Outcome([rms EXCEPT ![i] = setBaseRate(@, newRate)], rsv, counter,
                 "Room rate updated successfully!", 0)
    ELSE Outcome(rms, rsv, counter, RoomNotFound, 0)

updateRoomBillingStrategy(rms, rsv, counter, roomNumber, strategy) ==
    LET i == RoomIndex(rms, roomNumber) IN
    IF i # 0
    THEN Outcome([rms EXCEPT ![i] = setBillingStrategy(@, strategy)], rsv, counter,
                 "Room billing strategy updated successfully!", 0)
    ELSE Outcome(rms, rsv, counter, RoomNotFound, 0)

\* makeReservation that books without comparing guests with maxGuests
makeReservation_NoCapacityCheck(rms, rsv, counter, guestName, contactInfo, roomNumber, checkIn, checkOut, guests) ==
    LET i == RoomIndex(rms, roomNumber) IN
    IF i = 0
    THEN Outcome(rms, rsv, counter, RoomNotFound, 0)
    ELSE IF rms[i].isAvailable
    THEN Outcome([rms EXCEPT ![i] = setAvailability(@, FALSE)],
                 Append(rsv, Reservation(NewReservationId(counter), guestName,
                                         contactInfo, roomNumber, checkIn,
                                         checkOut, guests)),
                 NewReservationId(counter), ReservationCreated, 0)
    ELSE Outcome(rms, rsv, counter, RoomUnavailable, 0)

\* makeReservation that books without testing isRoomAvailable()
makeReservation_NoAvailabilityCheck(rms, rsv, counter, guestName, contactInfo, roomNumber, checkIn, checkOut, guests) ==
    LET i == RoomIndex(rms, roomNumber) IN
    IF i = 0
    THEN Outcome(rms, rsv, counter, RoomNotFound, 0)
    ELSE IF guests > rms[i].maxGuests
    THEN Outcome(rms, rsv, counter, CapacityExceeded, 0)
    ELSE Outcome([rms EXCEPT ![i] = setAvailability(@, FALSE)],
                 Append(rsv, Reservation(NewReservationId(counter), guestName,
                                         contactInfo, roomNumber, checkIn,
                                         checkOut, guests)),
                 NewReservationId(counter), ReservationCreated, 0)

\* makeReservation that marks an available room occupied before the capacity test
makeReservation_OccupiesBeforeCapacityTest(rms, rsv, counter, guestName, contactInfo, roomNumber, checkIn, checkOut, guests) ==
    LET i == RoomIndex(rms, roomNumber) IN
    IF i = 0
    THEN Outcome(rms, rsv, counter, RoomNotFound, 0)
    ELSE IF guests > rms[i].maxGuests
    THEN Outcome([rms EXCEPT ![i] = setAvailability(@, FALSE)], rsv, counter,
                 CapacityExceeded, 0)
    ELSE IF rms[i].isAvailable
    THEN LET id == NewReservationId(counter) IN
         Outcome([rms EXCEPT ![i] = setAvailability(@, FALSE)],
                 Append(rsv, Reservation(id, guestName, contactInfo, roomNumber,
                                         checkIn, checkOut, guests)),
                 id, ReservationCreated, 0)
    ELSE Outcome(rms, rsv, counter, RoomUnavailable, 0)

\* makeReservation that takes the next id before it looks for the room
makeReservation_CountsEveryAttempt(rms, rsv, counter, guestName, contactInfo, roomNumber, checkIn, checkOut, guests) ==
    LET i == RoomIndex(rms, roomNumber)
        id == NewReservationId(counter)
    IN
    IF i = 0
    THEN Outcome(rms, rsv, id, RoomNotFound, 0)
    ELSE IF guests > rms[i].maxGuests
    THEN Outcome(rms, rsv, id, CapacityExceeded, 0)
    ELSE IF rms[i].isAvailable
    THEN Outcome([rms EXCEPT ![i] = setAvailability(@, FALSE)],
                 Append(rsv, Reservation(id, guestName, contactInfo, roomNumber,
                                         checkIn, checkOut, guests)),
                 id, ReservationCreated, 0)
    ELSE Outcome(rms, rsv, id, RoomUnavailable, 0)

makeReservation(rms, rsv, counter, guestName, contactInfo, roomNumber, checkIn, checkOut, guests) ==
    LET i == RoomIndex(rms, roomNumber) IN
    IF i = 0
    THEN Outcome(rms, rsv, counter, RoomNotFound, 0)
    ELSE IF guests > rms[i].maxGuests
    THEN Outcome(rms, rsv, counter, CapacityExceeded, 0)
    ELSE IF rms[i].isAvailable
    THEN LET id == NewReservationId(counter) IN
         Outcome([rms EXCEPT ![i] = setAvailability(@, FALSE)],
                 Append(rsv, Reservation(id, guestName, contactInfo, roomNumber,
                                         checkIn, checkOut, guests)),
                 id, ReservationCreated, 0)
    ELSE Outcome(rms, rsv, counter, RoomUnavailable, 0)

\* cancelReservation that hands the cancelled id back to the counter
cancelReservation_ReusesId(rms, rsv, counter, reservationID) ==
    LET k == ReservationIndex(rsv, reservationID) IN
    IF k = 0
    THEN Outcome(rms, rsv, counter, ReservationNotFound, 0)
    ELSE LET i == RoomIndex(rms, rsv[k].roomNumber) IN
         Outcome(IF i # 0 THEN [rms EXCEPT ![i] = setAvailability(@, TRUE)] ELSE rms,
                 EraseAt(rsv, k), counter - 1, ReservationCancelled, 0)

\* cancelReservation that forgets setAvailability(true)
cancelReservation_KeepsRoomOccupied(rms, rsv, counter, reservationID) ==
    LET k == ReservationIndex(rsv, reservationID) IN
    IF k = 0
    THEN Outcome(rms, rsv, counter, ReservationNotFound, 0)
    ELSE Outcome(rms, EraseAt(rsv, k), counter, ReservationCancelled, 0)

\* cancelReservation that erases reservations.begin() instead of the match
cancelReservation_ErasesFirst(rms, rsv, counter, reservationID) ==
    LET k == ReservationIndex(rsv, reservationID) IN
    IF k = 0
    THEN Outcome(rms, rsv, counter, ReservationNotFound, 0)
    ELSE LET i == RoomIndex(rms, rsv[k].roomNumber) IN
         Outcome(IF i # 0 THEN [rms EXCEPT ![i] = setAvailability(@, TRUE)] ELSE rms,
                 EraseAt(rsv, 1), counter, ReservationCancelled, 0)

cancelReservation(rms, rsv, counter, reservationID) ==
    LET k == ReservationIndex(rsv, reservationID) IN
    IF k = 0
    THEN Outcome(rms, rsv, counter, ReservationNotFound, 0)
    ELSE LET i == RoomIndex(rms, rsv[k].roomNumber) IN
         Outcome(IF i # 0 THEN [rms EXCEPT ![i] = setAvailability(@, TRUE)] ELSE rms,
                 EraseAt(rsv, k), counter, ReservationCancelled, 0)

\* sscanf(date, "%d/%d/%d", &day, &month, &year)
Day(date) == date[1]
Month(date) == date[2]
Year(date) == date[3]

\* a date-range test that compares the days with > instead of >=
InvalidDateRange_AllowsSameDay(checkIn, checkOut) ==
    \/ Year(checkIn) > Year(checkOut)
    \/ (Year(checkIn) = Year(checkOut) /\ Month(checkIn) > Month(checkOut))
    \/ (Year(checkIn) = Year(checkOut) /\ Month(checkIn) = Month(checkOut)
        /\ Day(checkIn) > Day(checkOut))

\* the date-range test that makes viewReservationDetails throw runtime_error
InvalidDateRange(checkIn, checkOut) ==
    \/ Year(checkIn) > Year(checkOut)
    \/ (Year(checkIn) = Year(checkOut) /\ Month(checkIn) > Month(checkOut))
    \/ (Year(checkIn) = Year(checkOut) /\ Month(checkIn) = Month(checkOut)
        /\ Day(checkIn) >= Day(checkOut))

\* const int daysInMonth[]; the C array is 0-based, daysInMonth[m] is DaysInMonth[m + 1]
DaysInMonth == <<31, 28, 31, 30, 31, 30, 31, 31, 30, 31, 30, 31>>

\* a month loop that runs while month <= to
RECURSIVE MonthLoop_OneMonthMore(_, _)
MonthLoop_OneMonthMore(month, to) ==
    IF month <= to THEN DaysInMonth[month + 1] + MonthLoop_OneMonthMore(month + 1, to)
    ELSE 0

\* for (month = from; month < to; ++month) nights += daysInMonth[month];
RECURSIVE MonthLoop(_, _)
MonthLoop(month, to) ==
    IF month < to THEN DaysInMonth[month + 1] + MonthLoop(month + 1, to) ELSE 0

\* a night count that leaves out the day of the check-out date
Nights_OmitsCheckOutDay(checkIn, checkOut) ==
    (DaysInMonth[(Month(checkIn) - 1) + 1] - Day(checkIn))
    + MonthLoop(Month(checkIn), Month(checkOut) - 1)

\* the night count of viewReservationDetails
Nights(checkIn, checkOut) ==
    (DaysInMonth[(Month(checkIn) - 1) + 1] - Day(checkIn))
    + MonthLoop(Month(checkIn), Month(checkOut) - 1)
    + Day(checkOut)

\* viewReservationDetails that bills the room as it was when the program started
viewReservationDetails_BillsInitialRoom(rms, rsv, counter, reservationID) ==
    LET k == ReservationIndex(rsv, reservationID) IN
    IF k = 0
    THEN Outcome(rms, rsv, counter, ReservationNotFound, 0)
    ELSE IF InvalidDateRange(rsv[k].checkInDate, rsv[k].checkOutDate)
    THEN Outcome(rms, rsv, counter, InvalidDateRangeError, 0)
    ELSE LET nights == Nights(rsv[k].checkInDate, rsv[k].checkOutDate)
             i == RoomIndex(InitialRooms, rsv[k].roomNumber)
         IN  IF i = 0
             THEN [Outcome(rms, rsv, counter, TotalBill, 0) EXCEPT !.nights = nights]
             ELSE IF calculateBill(InitialRooms[i], nights).thrown
             THEN [Outcome(rms, rsv, counter, InvalidArgumentError, 0)
                      EXCEPT !.nights = nights]
             ELSE [Outcome(rms, rsv, counter, TotalBill,
                           calculateBill(InitialRooms[i], nights).amount)
                      EXCEPT !.nights = nights]

\* viewReservationDetails that reports a reservation of a deleted room as not found
viewReservationDetails_MissingRoomNotFound(rms, rsv, counter, reservationID) ==
    LET k == ReservationIndex(rsv, reservationID) IN
    IF k = 0
    THEN Outcome(rms, rsv, counter, ReservationNotFound, 0)
    ELSE IF InvalidDateRange(rsv[k].checkInDate, rsv[k].checkOutDate)
    THEN Outcome(rms, rsv, counter, InvalidDateRangeError, 0)
    ELSE LET nights == Nights(rsv[k].checkInDate, rsv[k].checkOutDate)
             i == RoomIndex(rms, rsv[k].roomNumber)
         IN  IF i = 0
             THEN [Outcome(rms, rsv, counter, RoomNotFound, 0) EXCEPT !.nights = nights]
             ELSE IF calculateBill(rms[i], nights).thrown
             THEN [Outcome(rms, rsv, counter, InvalidArgumentError, 0)
                      EXCEPT !.nights = nights]
             ELSE [Outcome(rms, rsv, counter, TotalBill,
                           calculateBill(rms[i], nights).amount)
                      EXCEPT !.nights = nights]

viewReservationDetails(rms, rsv, counter, reservationID) ==
    LET k == ReservationIndex(rsv, reservationID) IN
    IF k = 0
    THEN Outcome(rms, rsv, counter, ReservationNotFound, 0)
    ELSE IF InvalidDateRange(rsv[k].checkInDate, rsv[k].checkOutDate)
    THEN Outcome(rms, rsv, counter, InvalidDateRangeError, 0)
    ELSE LET nights == Nights(rsv[k].checkInDate, rsv[k].checkOutDate)
             i == RoomIndex(rms, rsv[k].roomNumber)
         IN  IF i = 0
             THEN [Outcome(rms, rsv, counter, TotalBill, 0) EXCEPT !.nights = nights]
             ELSE IF calculateBill(rms[i], nights).thrown
             THEN [Outcome(rms, rsv, counter, InvalidArgumentError, 0)
                      EXCEPT !.nights = nights]
             ELSE [Outcome(rms, rsv, counter, TotalBill,
                           calculateBill(rms[i], nights).amount)
                      EXCEPT !.nights = nights]

\* change guests that never compares newGuests with getMaxGuests()
ChangeGuests_NoCapacityCheck(rms, rsv, counter, k, newGuests) ==
    Outcome(rms, [rsv EXCEPT ![k] = updateGuests(@, newGuests)], counter,
            GuestsUpdated, 0)

\* case 1 of updateReservation: change number of guests
ChangeGuests(rms, rsv, counter, k, newGuests) ==
    LET i == RoomIndex(rms, rsv[k].roomNumber) IN
    IF i # 0 /\ newGuests > rms[i].maxGuests
    THEN Outcome(rms, rsv, counter, CapacityExceeded, 0)
    ELSE Outcome(rms, [rsv EXCEPT ![k] = updateGuests(@, newGuests)], counter,
                 GuestsUpdated, 0)

\* change room that forgets oldRoom.setAvailability(true)
ChangeRoom_KeepsOldRoomOccupied(rms, rsv, counter, k, newRoomNumber) ==
    LET i == RoomIndex(rms, newRoomNumber) IN
    IF i = 0
    THEN Outcome(rms, rsv, counter, "Room not available.", 0)
    ELSE IF rsv[k].numberOfGuests > rms[i].maxGuests
    THEN Outcome(rms, rsv, counter, CapacityExceeded, 0)
    ELSE Outcome([rms EXCEPT ![i] = setAvailability(@, FALSE)],
                 [rsv EXCEPT ![k] = updateRoomNumber(@, newRoomNumber)],
                 counter, RoomChanged, 0)

\* case 2 of updateReservation: change room
ChangeRoom(rms, rsv, counter, k, newRoomNumber) ==
    LET i == RoomIndex(rms, newRoomNumber) IN
    IF i = 0
    THEN Outcome(rms, rsv, counter, "Room not available.", 0)
    ELSE IF rsv[k].numberOfGuests > rms[i].maxGuests
    THEN Outcome(rms, rsv, counter, CapacityExceeded, 0)
    ELSE LET o == RoomIndex(rms, rsv[k].roomNumber)
             freed == IF o # 0 THEN [rms EXCEPT ![o] = setAvailability(@, TRUE)]
                      ELSE rms
         IN  Outcome([freed EXCEPT ![i] = setAvailability(@, FALSE)],
                     [rsv EXCEPT ![k] = updateRoomNumber(@, newRoomNumber)],
                     counter, RoomChanged, 0)

\* case 3 of updateReservation: change dates
ChangeDates(rms, rsv, counter, k, newCheckIn, newCheckOut) ==
    Outcome(rms, [rsv EXCEPT ![k] = updateDates(@, newCheckIn, newCheckOut)],
            counter, "", 0)

updateReservation(rms, rsv, counter, reservationID, option, newGuests, newRoomNumber, newCheckIn, newCheckOut) ==
    LET k == ReservationIndex(rsv, reservationID) IN
    IF k = 0
    THEN Outcome(rms, rsv, counter, ReservationNotFound, 0)
    ELSE CASE option = 1 -> ChangeGuests(rms, rsv, counter, k, newGuests)
           [] option = 2 -> ChangeRoom(rms, rsv, counter, k, newRoomNumber)
           [] option = 3 -> ChangeDates(rms, rsv, counter, k, newCheckIn, newCheckOut)
           [] option = 4 -> Outcome(rms, rsv, counter, "Back", 0)
           [] OTHER      -> Outcome(rms, rsv, counter, "Invalid option.", 0)

\* ---- main --------------------------------------------------------------------

\* What the last menu entry was called with and what it printed: arg is the
\* room number or reservation id typed, option the update option, val the
\* guest count, rate, strategy choice or new room number typed (for a
\* cancellation, the room number listed for the cancelled reservation), and
\* afterCancelOf the room freed by the call before it when that was a
\* successful cancellation (kept for a booking only); bill is the total bill
\* printed and nights the night count it was computed from; current is the
\* "Current room:" the change-room update prints before it asks.
Call(op, arg, option, val, msg, amount) ==
    [op |-> op, arg |-> arg, option |-> option, val |-> val,
     out |-> msg, bill |-> amount, afterCancelOf |-> 0, nights |-> 0,
     current |-> 0]

Init ==
    /\ rooms = InitialRooms
    /\ reservations = << >>
    /\ idCounter = 0
    /\ menu = "main"
    /\ last = Call("start", 0, 0, 0, "", 0)

\* the Hotel after a call
Apply(o) ==
    /\ rooms' = o.rooms
    /\ reservations' = o.reservations
    /\ idCounter' = o.idCounter

\* main menu: 1 room management, 2 reservation management, 3-6 listings, 7 exit
MainMenu(I) ==
    /\ menu = "main"
    /\ \E choice \in I.menuChoices :
         /\ menu' = CASE choice = 1 -> "room"
                      [] choice = 2 -> "reservation"
                      [] choice = 7 -> "exit"
                      [] OTHER      -> "main"
         /\ last' = Call("mainMenu", choice, 0, 0,
                         IF choice \in 1..7 THEN "" ELSE "Invalid choice. Please try again.", 0)
    /\ UNCHANGED <<rooms, reservations, idCounter>>

\* maxGuests of the "Add New Room" switch over the room type
MaxGuestsOf(roomType) ==
    CASE roomType = SINGLE -> 1
      [] roomType = DOUBLE -> 2
      [] roomType = DELUXE -> 4
      [] roomType = SUITE  -> 6
      [] OTHER             -> 1

\* the billing strategy menus: 1 Regular, 2 Premium, 3 Corporate, else none
StrategyOf(choice) ==
    CASE choice = 1 -> "Regular"
      [] choice = 2 -> "Premium"
      [] choice = 3 -> "Corporate"
      [] OTHER      -> "none"

\* an "Add New Room" that takes the first room number typed
AddNewRoom_NoDuplicateCheck(I) ==
    /\ menu = "room"
    /\ \E roomNumber \in I.roomNumbers, baseRate \in I.rates,
          roomTypeChoice \in I.typeChoices, billingStrategyChoice \in I.billingChoices :
         /\ IF StrategyOf(billingStrategyChoice) = "none"
            THEN /\ rooms' = rooms
                 /\ last' = Call("addRoom", roomNumber, 0, 0,
                                 "Invalid billing strategy choice.", 0)
            ELSE /\ rooms' = addRoom(rooms, roomNumber, roomTypeChoice - 1, baseRate,
                                     StrategyOf(billingStrategyChoice),
                                     MaxGuestsOf(roomTypeChoice - 1))
                 /\ last' = Call("addRoom", roomNumber, 0, 0, RoomAdded, 0)
    /\ UNCHANGED <<reservations, idCounter, menu>>

\* room menu 1: the room number is asked again until no room has it
AddNewRoom(I) ==
    /\ menu = "room"
    /\ \E roomNumber \in I.roomNumbers, baseRate \in I.rates,
          roomTypeChoice \in I.typeChoices, billingStrategyChoice \in I.billingChoices :
         /\ RoomIndex(rooms, roomNumber) = 0
         /\ IF StrategyOf(billingStrategyChoice) = "none"
            THEN /\ rooms' = rooms
                 /\ last' = Call("addRoom", roomNumber, 0, 0,
                                 "Invalid billing strategy choice.", 0)
            ELSE /\ rooms' = addRoom(rooms, roomNumber, roomTypeChoice - 1, baseRate,
                                     StrategyOf(billingStrategyChoice),
                                     MaxGuestsOf(roomTypeChoice - 1))
                 /\ last' = Call("addRoom", roomNumber, 0, 0, RoomAdded, 0)
    /\ UNCHANGED <<reservations, idCounter, menu>>

\* room menu 2
DeleteRoom(I) ==
    /\ menu = "room"
    /\ \E roomNumberToDelete \in I.deleteNumbers :
         LET o == deleteRoom(rooms, reservations, idCounter, roomNumberToDelete) IN
         /\ Apply(o)
         /\ last' = Call("deleteRoom", roomNumberToDelete, 0, 0, o.out, 0)
    /\ UNCHANGED menu

\* room menu 3
UpdateRoomRate(I) ==
    /\ menu = "room"
    /\ \E roomNumberToUpdate \in I.roomNumbers, newRate \in I.rates :
         LET o == updateRoomRate(rooms, reservations, idCounter,
                                 roomNumberToUpdate, newRate) IN
         /\ Apply(o)
         /\ last' = Call("updateRoomRate", roomNumberToUpdate, 0, newRate, o.out, 0)
    /\ UNCHANGED menu

\* room menu 4
UpdateRoomBillingStrategy(I) ==
    /\ menu = "room"
    /\ \E roomNumberToUpdate \in I.roomNumbers, choice \in I.billingChoices :
         IF StrategyOf(choice) = "none"
         THEN /\ last' = Call("updateRoomBillingStrategy", roomNumberToUpdate, 0,
                              choice, "Invalid billing strategy choice.", 0)
              /\ UNCHANGED <<rooms, reservations, idCounter>>
         ELSE LET o == updateRoomBillingStrategy(rooms, reservations, idCounter,
                                                 roomNumberToUpdate, StrategyOf(choice)) IN
              /\ Apply(o)
              /\ last' = Call("updateRoomBillingStrategy", roomNumberToUpdate, 0,
                              choice, o.out, 0)
    /\ UNCHANGED menu

\* room menu 5 (back to the main menu)
RoomMenuBack ==
    /\ menu = "room"
    /\ menu' = "main"
    /\ last' = Call("roomMenuBack", 5, 0, 0, "", 0)
    /\ UNCHANGED <<rooms, reservations, idCounter>>

\* reservation menu 1
MakeNewReservation(I) ==
    /\ menu = "reservation"
    /\ idCounter < MaxId
    /\ \E guestName \in I.names, contactInfo \in I.contacts, roomNumber \in I.roomNumbers,
          checkIn \in I.checkInDates, checkOut \in I.checkOutDates, guests \in I.guestCounts :
         LET o == makeReservation(rooms, reservations, idCounter, guestName,
                                  contactInfo, roomNumber, checkIn, checkOut, guests) IN
         /\ Apply(o)
         /\ last' = [Call("makeReservation", roomNumber, 0, guests, o.out, 0)
                       EXCEPT !.afterCancelOf =
                           IF /\ last.op = "cancelReservation"
                              /\ last.out = ReservationCancelled
                           THEN last.val ELSE 0]
    /\ UNCHANGED menu

\* reservation menu 2
CancelReservation(I) ==
    /\ menu = "reservation"
    /\ \E reservationID \in I.reservationIds :
         LET o == cancelReservation(rooms, reservations, idCounter, reservationID)
             k == ReservationIndex(reservations, reservationID)
         IN
         /\ Apply(o)
         /\ last' = Call("cancelReservation", reservationID, 0,
                         IF k # 0 THEN reservations[k].roomNumber ELSE 0, o.out, 0)
    /\ UNCHANGED menu

\* a reservation menu 3 whose exception leaves main()
ViewReservationDetails_Uncaught(I) ==
    /\ menu = "reservation"
    /\ \E reservationID \in I.reservationIds :
         LET o == viewReservationDetails(rooms, reservations, idCounter, reservationID) IN
         /\ Apply(o)
         /\ last' = [Call("viewReservationDetails", reservationID, 0, 0, o.out, o.bill)
                       EXCEPT !.nights = o.nights]
         /\ menu' = IF o.out \in {InvalidDateRangeError, InvalidArgumentError}
                    THEN "exit" ELSE menu

\* reservation menu 3; an exception is caught by the menu loop and printed
ViewReservationDetails(I) ==
    /\ menu = "reservation"
    /\ \E reservationID \in I.reservationIds :
         LET o == viewReservationDetails(rooms, reservations, idCounter, reservationID) IN
         /\ Apply(o)
         /\ last' = [Call("viewReservationDetails", reservationID, 0, 0, o.out, o.bill)
                       EXCEPT !.nights = o.nights]
    /\ UNCHANGED menu

\* reservation menu 4; the option and its value are read only for an existing id
UpdateReservation(I) ==
    /\ menu = "reservation"
    /\ \E reservationID \in I.reservationIds, option \in I.updateOptions :
       \E newGuests \in (IF option = 1 THEN I.guestCounts ELSE {0}),
          newRoomNumber \in (IF option = 2 THEN I.roomNumbers ELSE {0}),
          newCheckIn \in (IF option = 3 THEN I.checkInDates ELSE {<<0, 0, 0>>}),
          newCheckOut \in (IF option = 3 THEN I.checkOutDates ELSE {<<0, 0, 0>>}) :
         LET o == updateReservation(rooms, reservations, idCounter, reservationID,
                                    option, newGuests, newRoomNumber,
                                    newCheckIn, newCheckOut)
             found == ReservationIndex(reservations, reservationID) # 0
         IN
         /\ Apply(o)
         /\ last' = [Call("updateReservation", reservationID,
                          IF found THEN option ELSE 0,
                          CASE found /\ option = 1 -> newGuests
                            [] found /\ option = 2 -> newRoomNumber
                            [] OTHER -> 0,
                          o.out, 0)
                       EXCEPT !.current =
                           IF found /\ option = 2
                           THEN reservations[ReservationIndex(reservations,
                                                              reservationID)].roomNumber
                           ELSE 0]
    /\ UNCHANGED menu

\* reservation menu 5 (back to the main menu)
ReservationMenuBack ==
    /\ menu = "reservation"
    /\ menu' = "main"
    /\ last' = Call("reservationMenuBack", 5, 0, 0, "", 0)
    /\ UNCHANGED <<rooms, reservations, idCounter>>

Next(I) ==
    \/ MainMenu(I)
    \/ AddNewRoom(I)
    \/ DeleteRoom(I)
    \/ UpdateRoomRate(I)
    \/ UpdateRoomBillingStrategy(I)
    \/ RoomMenuBack
    \/ MakeNewReservation(I)
    \/ CancelReservation(I)
    \/ ViewReservationDetails(I)
    \/ UpdateReservation(I)
    \/ ReservationMenuBack

Spec == Init /\ [][Next(Booking)]_vars

SpecUnvalidated == Init /\ [][Next(Unvalidated)]_vars

\* the program on the inputs of Faulty
SpecFaulty == Init /\ [][Next(Faulty)]_vars

\* the program on the inputs of Repricing
SpecRepricing == Init /\ [][Next(Repricing)]_vars

\* the program on the inputs of Billing
SpecBilling == Init /\ [][Next(Billing)]_vars

\* the reservation menu right after one guest was booked on one of ViewRooms
\* with any two of NightDates
InitNights ==
    \E roomNumber \in ViewRooms, checkIn \in NightDates, checkOut \in NightDates :
        LET o == makeReservation(InitialRooms, << >>, 0, "Ana", "0917", roomNumber,
                                 checkIn, checkOut, 1)
        IN  /\ rooms = o.rooms
            /\ reservations = o.reservations
            /\ idCounter = o.idCounter
            /\ menu = "reservation"
            /\ last = Call("makeReservation", roomNumber, 0, 1, o.out, 0)

\* viewReservationDetails applied to that reservation
SpecNights == InitNights /\ [][ViewReservationDetails(Viewing)]_vars

\* ---- properties --------------------------------------------------------------

\* the positions of the active reservations that reference room number n
ActiveOn(rsv, n) == {k \in 1..Len(rsv) : rsv[k].roomNumber = n}

\* the last call was makeReservation / cancelReservation / the change-room update
IsMake(c) == c.op = "makeReservation"
IsCancel(c) == c.op = "cancelReservation"
IsChangeRoom(c) == c.op = "updateReservation" /\ c.option = 2

\* C1: every room is unavailable if and only if exactly one active
\* reservation references its room number.
C1_AvailabilityIffOneReservation ==
    \A i \in 1..Len(rooms) :
        (~rooms[i].isAvailable)
            <=> (Cardinality(ActiveOn(reservations, rooms[i].roomNumber)) = 1)

\* C2: a makeReservation call for room R succeeds only if no active
\* reservation references R at the time of the call.
C2_NoDoubleBooking ==
    [][(IsMake(last') /\ last'.out = ReservationCreated)
          => ActiveOn(reservations, last'.arg) = {}]_vars

\* C3: the id counter never decreases, every active reservation's id lies in
\* 1..idCounter, and a successful makeReservation appends a reservation whose
\* id is the counter's new value, strictly above its old value; so each new
\* id is positive and greater than every id assigned before it, cancelled or not.
C3_IdsStrictlyIncreasing ==
    [][/\ idCounter' >= idCounter
       /\ \A k \in 1..Len(reservations') :
              reservations'[k].reservationID \in 1..idCounter'
       /\ (IsMake(last') /\ last'.out = ReservationCreated)
              => /\ Len(reservations') = Len(reservations) + 1
                 /\ reservations'[Len(reservations')].reservationID = idCounter'
                 /\ idCounter' > idCounter
                 /\ \A k \in 1..Len(reservations) :
                        reservations[k].reservationID < idCounter']_vars

\* C3 witness: a reservation was created after an earlier one was cancelled
C3_Witness ==
    /\ IsMake(last) /\ last.out = ReservationCreated
    /\ idCounter = 2 /\ Len(reservations) = 1
    /\ reservations[1].reservationID = 2

\* C4: every active reservation's roomNumber is the number of a room that
\* exists in the registry.
C4_NoDanglingRoomReference ==
    \A k \in 1..Len(reservations) :
        \E i \in 1..Len(rooms) : rooms[i].roomNumber = reservations[k].roomNumber

\* C5: every active reservation's numberOfGuests is at most the maxGuests of
\* the room it references.
C5_GuestsWithinCapacity ==
    \A k \in 1..Len(reservations) : \A i \in 1..Len(rooms) :
        rooms[i].roomNumber = reservations[k].roomNumber
            => reservations[k].numberOfGuests <= rooms[i].maxGuests

\* C6: a change-room update whose new room is unavailable, or too small for
\* the reservation's guests, changes no room and no reservation.
C6_RefusedRoomChangeMutatesNothing ==
    [][\A k \in 1..Len(reservations) : \A i \in 1..Len(rooms) :
          (/\ IsChangeRoom(last')
           /\ reservations[k].reservationID = last'.arg
           /\ rooms[i].roomNumber = last'.val
           /\ (\/ ~rooms[i].isAvailable
               \/ reservations[k].numberOfGuests > rooms[i].maxGuests))
          => UNCHANGED <<rooms, reservations>>]_vars

\* C7: makeReservation with more guests than the room's maxGuests reports
\* the capacity error and changes no room, no reservation and not the counter.
C7_OverCapacityRejected ==
    [][\A i \in 1..Len(rooms) :
          (IsMake(last') /\ rooms[i].roomNumber = last'.arg
           /\ last'.val > rooms[i].maxGuests)
          => /\ last'.out = CapacityExceeded
             /\ UNCHANGED <<rooms, reservations, idCounter>>]_vars

\* C7 witness: a booking of too many guests into an existing room was refused
C7_Witness ==
    /\ IsMake(last) /\ last.out = CapacityExceeded
    /\ \E i \in 1..Len(rooms) :
          rooms[i].roomNumber = last.arg /\ last.val > rooms[i].maxGuests

\* C8: makeReservation for a room number that does not exist, or for a room
\* that is not available, creates nothing: it reports a failure and rooms,
\* reservations and the id counter are unchanged.
C8_MissingOrOccupiedRoomRejected ==
    [][(/\ IsMake(last')
        /\ \/ \A i \in 1..Len(rooms) : rooms[i].roomNumber # last'.arg
           \/ \E i \in 1..Len(rooms) :
                 rooms[i].roomNumber = last'.arg /\ ~rooms[i].isAvailable)
          => /\ last'.out \in {RoomNotFound, RoomUnavailable, CapacityExceeded}
             /\ (\A i \in 1..Len(rooms) : rooms[i].roomNumber # last'.arg)
                    => last'.out = RoomNotFound
             /\ UNCHANGED <<rooms, reservations, idCounter>>]_vars

\* C8 witness: a booking within capacity of an occupied room was refused
C8_Witness ==
    /\ IsMake(last) /\ last.out = RoomUnavailable
    /\ \E i \in 1..Len(rooms) :
          /\ rooms[i].roomNumber = last.arg
          /\ ~rooms[i].isAvailable
          /\ last.val <= rooms[i].maxGuests

\* C9: a makeReservation that directly follows the cancellation of a
\* reservation on the same room, with a guest count within the room's
\* capacity, succeeds and leaves the room unavailable.
C9_CancelThenRebook ==
    \A i \in 1..Len(rooms) :
        (/\ IsMake(last) /\ last.afterCancelOf = last.arg
         /\ rooms[i].roomNumber = last.arg
         /\ last.val <= rooms[i].maxGuests)
        => /\ last.out = ReservationCreated
           /\ ~rooms[i].isAvailable
           /\ reservations[Len(reservations)].roomNumber = last.arg

\* C9 witness: room 201 was booked again right after its reservation was cancelled
C9_Witness ==
    /\ IsMake(last) /\ last.afterCancelOf = 201 /\ last.arg = 201
    /\ last.out = ReservationCreated
    /\ \E i \in 1..Len(rooms) : rooms[i].roomNumber = 201 /\ ~rooms[i].isAvailable

\* C10: cancelReservation of an existing id removes exactly that reservation
\* and keeps the order of the others, sets isAvailable on the room with the
\* reservation's room number (on no room when none has that number), and
\* leaves every other room and the id counter unchanged.
C10_CancelFrame ==
    [][\A k \in 1..Len(reservations) :
          (IsCancel(last') /\ reservations[k].reservationID = last'.arg)
          => /\ Len(reservations') = Len(reservations) - 1
             /\ \A j \in 1..Len(reservations') :
                    reservations'[j] = reservations[IF j < k THEN j ELSE j + 1]
             /\ Len(rooms') = Len(rooms)
             /\ \A i \in 1..Len(rooms) :
                    rooms'[i] = IF rooms[i].roomNumber = reservations[k].roomNumber
                                THEN [rooms[i] EXCEPT !.isAvailable = TRUE]
                                ELSE rooms[i]
             /\ idCounter' = idCounter
             /\ last'.out = ReservationCancelled]_vars

\* C10 witness: the first of two reservations was cancelled, its room exists
C10_Witness ==
    /\ IsCancel(last) /\ last.out = ReservationCancelled
    /\ last.arg = 1
    /\ Len(reservations) = 1 /\ reservations[1].reservationID = 2
    /\ \E i \in 1..Len(rooms) : rooms[i].roomNumber = last.val /\ rooms[i].isAvailable

\* C11: a successful change-room update of a reservation from room A to a
\* different room B leaves, in the one step the call takes, A available, B
\* unavailable and the reservation on B; the reservation's other fields, all
\* other rooms, all other reservations and the id counter are unchanged.
C11_RoomChangeEffect ==
    [][\A k \in 1..Len(reservations) :
          (/\ IsChangeRoom(last') /\ last'.out = RoomChanged
           /\ reservations[k].reservationID = last'.arg
           /\ last'.val # reservations[k].roomNumber)
          => /\ Len(rooms') = Len(rooms)
             /\ \A i \in 1..Len(rooms) :
                    rooms'[i] =
                        IF rooms[i].roomNumber = reservations[k].roomNumber
                        THEN [rooms[i] EXCEPT !.isAvailable = TRUE]
                        ELSE IF rooms[i].roomNumber = last'.val
                        THEN [rooms[i] EXCEPT !.isAvailable = FALSE]
                        ELSE rooms[i]
             /\ Len(reservations') = Len(reservations)
             /\ \A j \in 1..Len(reservations) :
                    reservations'[j] =
                        IF j = k
                        THEN [reservations[j] EXCEPT !.roomNumber = last'.val]
                        ELSE reservations[j]
             /\ idCounter' = idCounter]_vars

\* C11 witness: a reservation was moved from room 201 to room 202
C11_Witness ==
    /\ IsChangeRoom(last) /\ last.out = RoomChanged
    /\ last.current = 201 /\ last.val = 202
    /\ \E k \in 1..Len(reservations) :
          reservations[k].reservationID = last.arg /\ reservations[k].roomNumber = 202
    /\ \E i \in 1..Len(rooms) : rooms[i].roomNumber = 201 /\ rooms[i].isAvailable
    /\ \E i \in 1..Len(rooms) : rooms[i].roomNumber = 202 /\ ~rooms[i].isAvailable

\* the last call was the change-guest-count update
IsChangeGuests(c) == c.op = "updateReservation" /\ c.option = 1

\* C12: the change-guest-count update of an existing reservation is refused
\* with the capacity error, changing nothing, when the new count exceeds the
\* maxGuests of the room the reservation references; otherwise it changes
\* that reservation's numberOfGuests to the new count and nothing else.
C12_GuestChangeRevalidates ==
    [][\A k \in 1..Len(reservations) :
          (IsChangeGuests(last') /\ reservations[k].reservationID = last'.arg)
          => IF \E i \in 1..Len(rooms) :
                    /\ rooms[i].roomNumber = reservations[k].roomNumber
                    /\ last'.val > rooms[i].maxGuests
             THEN /\ last'.out = CapacityExceeded
                  /\ UNCHANGED <<rooms, reservations, idCounter>>
             ELSE /\ last'.out = GuestsUpdated
                  /\ Len(reservations') = Len(reservations)
                  /\ \A j \in 1..Len(reservations) :
                         reservations'[j] =
                             IF j = k
                             THEN [reservations[j] EXCEPT !.numberOfGuests = last'.val]
                             ELSE reservations[j]
                  /\ UNCHANGED <<rooms, idCounter>>]_vars

\* C12 witness: a change to more guests than the reservation's room holds was refused
C12_Witness ==
    /\ IsChangeGuests(last) /\ last.out = CapacityExceeded
    /\ \E k \in 1..Len(reservations) : \E i \in 1..Len(rooms) :
          /\ reservations[k].reservationID = last.arg
          /\ rooms[i].roomNumber = reservations[k].roomNumber
          /\ last.val > rooms[i].maxGuests
          /\ reservations[k].numberOfGuests <= rooms[i].maxGuests

\* no active reservation has this id / no room has this number
UnknownReservation(id) == \A k \in 1..Len(reservations) : reservations[k].reservationID # id
UnknownRoom(number) == \A i \in 1..Len(rooms) : rooms[i].roomNumber # number

\* C13: cancelReservation, viewReservationDetails and updateReservation with
\* the id of no active reservation report "Reservation not found.", and
\* deleteRoom, updateRoomRate and updateRoomBillingStrategy with the number
\* of no room report "Room not found."; rooms, reservations and the id
\* counter are unchanged.
C13_UnknownIdentifierChangesNothing ==
    [][/\ (/\ last'.op \in {"cancelReservation", "viewReservationDetails",
                            "updateReservation"}
           /\ UnknownReservation(last'.arg))
          => /\ last'.out = ReservationNotFound
             /\ UNCHANGED <<rooms, reservations, idCounter>>
       /\ (/\ \/ last'.op \in {"deleteRoom", "updateRoomRate"}
              \/ last'.op = "updateRoomBillingStrategy" /\ last'.val \in 1..3
           /\ UnknownRoom(last'.arg))
          => /\ last'.out = RoomNotFound
             /\ UNCHANGED <<rooms, reservations, idCounter>>]_vars

\* C13 witness: deleteRoom of a number no room has, with a reservation active
C13_Witness ==
    /\ last.op = "deleteRoom" /\ last.out = RoomNotFound
    /\ UnknownRoom(last.arg)
    /\ Len(reservations) > 0

\* date a is before date b, compared by year, then month, then day
DateBefore(a, b) ==
    \/ Year(a) < Year(b)
    \/ Year(a) = Year(b) /\ Month(a) < Month(b)
    \/ Year(a) = Year(b) /\ Month(a) = Month(b) /\ Day(a) < Day(b)

\* C14: every active reservation's checkOutDate is strictly after its
\* checkInDate (by year, then month, then day).
C14_CheckOutAfterCheckIn ==
    \A k \in 1..Len(reservations) :
        DateBefore(reservations[k].checkInDate, reservations[k].checkOutDate)

\* C15: every active reservation's numberOfGuests is at least 1.
C15_GuestsPositive ==
    \A k \in 1..Len(reservations) : reservations[k].numberOfGuests >= 1

\* the last call was viewReservationDetails
IsView(c) == c.op = "viewReservationDetails"

\* C16: viewReservationDetails of a reservation with check-in 01/01/2024 and
\* check-out 05/01/2024 computes a night count of 4.
C16_FourNights ==
    \A k \in 1..Len(reservations) :
        (/\ IsView(last) /\ reservations[k].reservationID = last.arg
         /\ reservations[k].checkInDate = <<1, 1, 2024>>
         /\ reservations[k].checkOutDate = <<5, 1, 2024>>)
        => last.nights = 4

\* the fixed month-length table of the night-count formula, 0-based
MonthLength(m) == <<31, 28, 31, 30, 31, 30, 31, 31, 30, 31, 30, 31>>[m + 1]

\* sum of MonthLength(m) over a set of 0-based months
RECURSIVE SumMonthLengths(_)
SumMonthLengths(months) ==
    IF months = {} THEN 0
    ELSE LET m == CHOOSE x \in months : TRUE
         IN  MonthLength(m) + SumMonthLengths(months \ {m})

\* C17: for dates that pass the date-range check, the night count is
\* (daysInMonth[checkInMonth-1] - checkInDay)
\*   + the sum of daysInMonth[m] for m in checkInMonth..checkOutMonth-2
\*   + checkOutDay, with the fixed table and without the years.
C17_NightCountFormula ==
    \A k \in 1..Len(reservations) :
        (/\ IsView(last) /\ reservations[k].reservationID = last.arg
         /\ last.out # InvalidDateRangeError)
        => LET ci == reservations[k].checkInDate
               co == reservations[k].checkOutDate
           IN  last.nights = (MonthLength(ci[2] - 1) - ci[1])
                             + SumMonthLengths(ci[2]..(co[2] - 2))
                             + co[1]

\* C17 witness: a stay from 28/01/2024 to 01/12/2024 was counted over ten whole months
C17_Witness ==
    /\ IsView(last) /\ last.out = TotalBill
    /\ reservations[1].reservationID = last.arg
    /\ reservations[1].checkInDate = <<28, 1, 2024>>
    /\ reservations[1].checkOutDate = <<1, 12, 2024>>
    /\ last.nights = 3 + (28 + 31 + 30 + 31 + 30 + 31 + 31 + 30 + 31 + 30) + 1

\* C18: viewReservationDetails of an existing reservation raises the
\* invalid-date-range error exactly when checkInYear > checkOutYear, or the
\* years are equal and checkInMonth > checkOutMonth, or year and month are
\* equal and checkInDay >= checkOutDay; either way it changes no room, no
\* reservation and not the id counter.
C18_InvalidDateRangeExactly ==
    [][\A k \in 1..Len(reservations) :
          (IsView(last') /\ reservations[k].reservationID = last'.arg)
          => LET ci == reservations[k].checkInDate
                 co == reservations[k].checkOutDate
             IN  /\ (last'.out = InvalidDateRangeError)
                        <=> \/ ci[3] > co[3]
                            \/ ci[3] = co[3] /\ ci[2] > co[2]
                            \/ ci[3] = co[3] /\ ci[2] = co[2] /\ ci[1] >= co[1]
                 /\ UNCHANGED <<rooms, reservations, idCounter>>]_vars

\* C18 witness: a reservation that checks out on its check-in day was refused
C18_Witness ==
    /\ IsView(last) /\ last.out = InvalidDateRangeError
    /\ reservations[1].reservationID = last.arg
    /\ reservations[1].checkInDate = reservations[1].checkOutDate

\* C20: when viewReservationDetails reaches the bill computation of the
\* reservation's room (Regular, Premium or Corporate), a night count <= 0
\* raises the invalid-argument error and no amount is printed, and a night
\* count >= 1 raises no error and the total bill is printed.
C20_NonPositiveNightsRejected ==
    \A k \in 1..Len(reservations) :
        (/\ IsView(last) /\ reservations[k].reservationID = last.arg
         /\ last.out # InvalidDateRangeError
         /\ ~UnknownRoom(reservations[k].roomNumber))
        => IF last.nights <= 0
           THEN last.out = InvalidArgumentError /\ last.bill = 0
           ELSE last.out = TotalBill /\ last.bill > 0

\* C20 witness: 29/02/2024 to 01/03/2024 gave a night count of 0 and the error
C20_Witness ==
    /\ IsView(last) /\ last.out = InvalidArgumentError /\ last.nights = 0
    /\ reservations[1].reservationID = last.arg
    /\ reservations[1].checkInDate = <<29, 2, 2024>>
    /\ reservations[1].checkOutDate = <<1, 3, 2024>>

\* C19: the bill printed for a room, in cents, is baseRate * nights under
\* Regular, that plus 10% under Premium and that less 15% under Corporate;
\* for rate 100 and 3 nights it is 300.00, 330.00 and 255.00.
C19_BillPerStrategy ==
    \A k \in 1..Len(reservations) :
        (/\ IsView(last) /\ last.out = TotalBill
         /\ reservations[k].reservationID = last.arg
         /\ ~UnknownRoom(reservations[k].roomNumber))
        => LET room == rooms[RoomIndex(rooms, reservations[k].roomNumber)]
               dollars == room.baseRate * last.nights
           IN  /\ last.nights >= 1
               /\ room.billingStrategy = "Regular" => last.bill = dollars * 100
               /\ room.billingStrategy = "Premium" => last.bill = dollars * 100 + dollars * 10
               /\ room.billingStrategy = "Corporate" => last.bill = dollars * 100 - dollars * 15
               /\ (room.baseRate = 100 /\ last.nights = 3)
                  => last.bill = CASE room.billingStrategy = "Regular" -> 30000
                                   [] room.billingStrategy = "Premium" -> 33000
                                   [] room.billingStrategy = "Corporate" -> 25500

\* C19 witness: a Premium room at rate 100 was billed 330.00 for 3 nights
C19_Witness ==
    /\ IsView(last) /\ last.out = TotalBill /\ last.nights = 3 /\ last.bill = 33000
    /\ \E i \in 1..Len(rooms) : rooms[i].billingStrategy = "Premium" /\ rooms[i].baseRate = 100

\* C21: after any sequence of menu operations no two rooms of the registry
\* have the same roomNumber and no two reservations have the same
\* reservationID.
C21_UniqueIdentifiers ==
    /\ \A i, j \in 1..Len(rooms) :
           rooms[i].roomNumber = rooms[j].roomNumber => i = j
    /\ \A k, l \in 1..Len(reservations) :
           reservations[k].reservationID = reservations[l].reservationID => k = l

\* C21 witness: room 201 was deleted and added again while two reservations exist
C21_Witness ==
    /\ last.op = "addRoom" /\ last.out = RoomAdded /\ last.arg = 201
    /\ Len(rooms) = Len(InitialRooms)
    /\ rooms[Len(rooms)].roomNumber = 201
    /\ Len(reservations) = 2

\* viewReservationDetails ended with one of its two exceptions
IsViewError(c) == IsView(c) /\ c.out \in {InvalidDateRangeError, InvalidArgumentError}

\* C22: no error is fatal to the session.  When viewReservationDetails raises
\* the invalid-date-range or the invalid-argument error, rooms, reservations
\* and the id counter are unchanged and control is back at the reservation
\* menu, where every entry of the menu can be taken again (a new reservation
\* while the bound on ids allows one); the session ends only by choice 7 of
\* the main menu.
C22_NoErrorIsFatal ==
    /\ [][/\ IsViewError(last')
               => /\ UNCHANGED <<rooms, reservations, idCounter>>
                  /\ menu' = "reservation"
          /\ (menu' = "exit" /\ menu # "exit")
               => menu = "main" /\ last'.op = "mainMenu" /\ last'.arg = 7]_vars
    /\ [](IsViewError(last)
            => /\ menu = "reservation"
               /\ idCounter < MaxId => ENABLED MakeNewReservation(Faulty)
               /\ ENABLED CancelReservation(Faulty)
               /\ ENABLED ViewReservationDetails(Faulty)
               /\ ENABLED UpdateReservation(Faulty)
               /\ ENABLED ReservationMenuBack)

\* C22 witness: a view ended with the invalid-argument error and the session
\* is at the reservation menu with an id still to give
C22_Witness ==
    /\ IsViewError(last) /\ last.out = InvalidArgumentError
    /\ menu = "reservation"
    /\ Len(reservations) = 1 /\ idCounter < MaxId

\* C23: every room with isAvailable = FALSE is the room of at least one
\* reservation, after any sequence of menu operations (deleting a room, adding
\* its number again and moving a reservation onto an occupied room included).
C23_OccupiedRoomIsBooked ==
    \A i \in 1..Len(rooms) :
        ~rooms[i].isAvailable => ActiveOn(reservations, rooms[i].roomNumber) # {}

\* C23 witness: a reservation was moved onto a room that another one had booked
C23_Witness ==
    /\ IsChangeRoom(last) /\ last.out = RoomChanged /\ last.current # last.val
    /\ Cardinality(ActiveOn(reservations, last.val)) = 2
    /\ \E i \in 1..Len(rooms) : rooms[i].roomNumber = last.val /\ ~rooms[i].isAvailable

\* C24: only a successful makeReservation consumes a reservation id.  A step
\* changes the counter only if it is a makeReservation that printed success,
\* and then by exactly one, the new reservation being appended with that id;
\* a makeReservation rejected as not found, over capacity or unavailable and
\* every other operation leave it unchanged; the reservation list stays in
\* strictly increasing id order with no id above the counter.
C24_OnlySuccessConsumesId ==
    [][/\ IF IsMake(last') /\ last'.out = ReservationCreated
          THEN /\ idCounter' = idCounter + 1
               /\ Len(reservations') = Len(reservations) + 1
               /\ reservations'[Len(reservations')].reservationID = idCounter'
          ELSE idCounter' = idCounter
       /\ \A k \in 1..Len(reservations') :
              /\ reservations'[k].reservationID \in 1..idCounter'
              /\ k > 1 => reservations'[k - 1].reservationID < reservations'[k].reservationID]_vars

\* C24 witness: with one reservation made, a second attempt was turned down
\* because the room is taken, and the counter is still 1
C24_Witness ==
    /\ IsMake(last) /\ last.out = RoomUnavailable
    /\ idCounter = 1 /\ Len(reservations) = 1
    /\ reservations[1].reservationID = 1

\* C25: the total bill of a view is computed from the base rate and the
\* billing strategy that the room the reservation references has when the
\* view is made, so updateRoomRate, updateRoomBillingStrategy and a room
\* change all show in the next view.
C25_BillUsesCurrentRoom ==
    [][\A k \in 1..Len(reservations) :
          (/\ IsView(last') /\ last'.out = TotalBill
           /\ reservations[k].reservationID = last'.arg
           /\ ~UnknownRoom(reservations[k].roomNumber))
          => LET room == rooms[RoomIndex(rooms, reservations[k].roomNumber)]
                 percent == CASE room.billingStrategy = "Regular" -> 100
                              [] room.billingStrategy = "Premium" -> 110
                              [] room.billingStrategy = "Corporate" -> 85
             IN  last'.bill = room.baseRate * last'.nights * percent]_vars

\* C25 witness: room 201 as main() created it (a Double room), since given rate
\* 75 and the Corporate strategy at the update prompts, was billed 3 nights at
\* 75 less 15%, while room 203 keeps its rate 110
C25_Witness ==
    /\ IsView(last) /\ last.out = TotalBill /\ last.nights = 3 /\ last.bill = 19125
    /\ Len(reservations) = 1 /\ reservations[1].reservationID = last.arg
    /\ reservations[1].roomNumber = 201
    /\ \E i \in 1..Len(rooms) :
           /\ rooms[i].roomNumber = 201 /\ rooms[i].type = DOUBLE
           /\ rooms[i].baseRate = 75 /\ rooms[i].billingStrategy = "Corporate"

\* a date whose month is in 1..12 and whose day is in 1..daysInMonth[month-1]
IsCalendarDate(date) ==
    /\ date[2] \in 1..12
    /\ date[1] >= 1
    /\ date[1] <= MonthLength(date[2] - 1)

\* C26: for a reservation whose two dates are calendar dates by the month
\* table and pass the date-range check, the night count of
\* viewReservationDetails is at least 1 and the invalid-argument error of the
\* bill computation is not raised.
C26_CalendarDatesGivePositiveNights ==
    \A k \in 1..Len(reservations) :
        (/\ IsView(last) /\ reservations[k].reservationID = last.arg
         /\ IsCalendarDate(reservations[k].checkInDate)
         /\ IsCalendarDate(reservations[k].checkOutDate)
         /\ last.out # InvalidDateRangeError)
        => last.nights >= 1 /\ last.out # InvalidArgumentError

\* C26 witness: 31/12/2024 to 01/01/2025, the shortest count the formula can
\* give for calendar dates, was counted as 1 night and billed
C26_Witness ==
    /\ IsView(last) /\ last.out = TotalBill /\ last.nights = 1
    /\ reservations[1].reservationID = last.arg
    /\ reservations[1].checkInDate = <<31, 12, 2024>>
    /\ reservations[1].checkOutDate = <<1, 1, 2025>>

\* C27: viewReservationDetails on a reservation whose room has been deleted,
\* with dates that pass the date-range check, raises no error and prints a
\* total bill of 0, whatever the night count: it does not print not-found and
\* the bill computation, which would throw for a night count <= 0, is not
\* called.
C27_DeletedRoomBilledZero ==
    \A k \in 1..Len(reservations) :
        (/\ IsView(last) /\ reservations[k].reservationID = last.arg
         /\ UnknownRoom(reservations[k].roomNumber)
         /\ last.out # InvalidDateRangeError)
        => /\ last.out = TotalBill
           /\ last.bill = 0
           /\ ~IsViewError(last)
           /\ last.out \notin {ReservationNotFound, RoomNotFound}

\* C27 witness: room 201 was deleted under a reservation from 29/02 to 01/03,
\* a night count of 0 that calculateBill would refuse, and the view printed a
\* total bill of 0
C27_Witness ==
    /\ IsView(last) /\ last.out = TotalBill /\ last.bill = 0 /\ last.nights = 0
    /\ \E k \in 1..Len(reservations) :
           /\ reservations[k].reservationID = last.arg
           /\ reservations[k].roomNumber = 201
    /\ UnknownRoom(201)

====
